---- MODULE Spec2Model ----
(***************************************************************************)
(* Model of seafog.goos_sst: the location resolver (_generate_data_info),  *)
(* the fetch orchestrator (goos_sst_find_data) and the grid parser         *)
(* (goos_sst_parser).  Python strings are TLA+ strings; slices are written *)
(* with Slice, which clamps the way Python slicing does.                   *)
(***************************************************************************)
EXTENDS Integers, Sequences, FiniteSets, TLC

VARIABLES info,    \* last call of _generate_data_info: arguments and outcome
          fs,      \* files that exist on the local file system
          dirs,    \* directories that exist on the local file system
          call,    \* last call of goos_sst_find_data: arguments, events, outcome
          parse    \* last call of goos_sst_parser: arguments and outcome

vars == <<info, fs, dirs, call, parse>>

NoCall == [kind |-> "none"]

(***************************************************************************)
(* Python string primitives                                                *)
(***************************************************************************)
Min(a, b) == IF a < b THEN a ELSE b
Max(a, b) == IF a > b THEN a ELSE b

\* s[i:j] for 0 <= i, 0 <= j (0-based, end exclusive), clamped to the string
Slice(s, i, j) == SubSeq(s, Min(i, Len(s)) + 1, Min(j, Len(s)))

\* s[:-n]
DropLast(s, n) == Slice(s, 0, Max(Len(s) - n, 0))

\* s[-1], defined for a non-empty s
LastChar(s) == SubSeq(s, Len(s), Len(s))

DigitChar == <<"0", "1", "2", "3", "4", "5", "6", "7", "8", "9">>

IsDigit(c) == \E d \in 1..10 : DigitChar[d] = c

DigitVal(c) == (CHOOSE d \in 1..10 : DigitChar[d] = c) - 1

AllDigits(s) == \A i \in 1..Len(s) : IsDigit(SubSeq(s, i, i))

\* int(s) for a non-empty string of decimal digits
RECURSIVE int(_)
int(s) == IF Len(s) = 0 THEN 0
          ELSE 10 * int(DropLast(s, 1)) + DigitVal(LastChar(s))

\* the decimal digits of n >= 0, zero-padded to at least w characters
RECURSIVE ZeroPad(_, _)
ZeroPad(n, w) == IF n < 10 /\ w <= 1 THEN DigitChar[n + 1]
                 ELSE ZeroPad(n \div 10, w - 1) \o DigitChar[(n % 10) + 1]

(***************************************************************************)
(* datetime.strptime(date, "%Y-%m-%d %H:%M").strftime("%Y%m%d")            *)
(***************************************************************************)
IsLeap(y) == (y % 4 = 0 /\ y % 100 # 0) \/ y % 400 = 0

DaysInMonth(y, m) == IF m = 2 THEN (IF IsLeap(y) THEN 29 ELSE 28)
                     ELSE IF m \in {4, 6, 9, 11} THEN 30 ELSE 31

\* the ways date splits as Y-m-d H:M with a 4-digit year and 1- or 2-digit
\* month, day, hour and minute, each inside its calendar range
DateSplits(date) ==
  { w \in {<<4, lm, ld, lh, ln>> : lm \in 1..2, ld \in 1..2, lh \in 1..2, ln \in 1..2} :
      LET pm == w[1] + 1
          pd == pm + w[2] + 1
          ph == pd + w[3] + 1
          pn == ph + w[4] + 1
          Y  == Slice(date, 0, w[1])
          m  == Slice(date, pm, pm + w[2])
          d  == Slice(date, pd, pd + w[3])
          H  == Slice(date, ph, ph + w[4])
          M  == Slice(date, pn, pn + w[5])
      IN  /\ Len(date) = pn + w[5]
          /\ Slice(date, w[1], pm) = "-"
          /\ Slice(date, pm + w[2], pd) = "-"
          /\ Slice(date, pd + w[3], ph) = " "
          /\ Slice(date, ph + w[4], pn) = ":"
          /\ AllDigits(Y) /\ AllDigits(m) /\ AllDigits(d) /\ AllDigits(H) /\ AllDigits(M)
          /\ int(Y) >= 1
          /\ int(m) \in 1..12
          /\ int(d) \in 1..DaysInMonth(int(Y), int(m))
          /\ int(H) \in 0..23
          /\ int(M) \in 0..59 }

\* strptime raises ValueError when the string does not match the format
strptime_ok(date) == DateSplits(date) # {}

\* the date a split w of the string stands for
DateAt(date, w) ==
  [year  |-> int(Slice(date, 0, w[1])),
   month |-> int(Slice(date, w[1] + 1, w[1] + 1 + w[2])),
   day   |-> int(Slice(date, w[1] + w[2] + 2, w[1] + w[2] + 2 + w[3]))]

strptime(date) == DateAt(date, CHOOSE w \in DateSplits(date) : TRUE)

strftime(dt) == ZeroPad(dt.year, 4) \o ZeroPad(dt.month, 2) \o ZeroPad(dt.day, 2)

(***************************************************************************)
(* Module constants                                                        *)
(***************************************************************************)
ROOT_URL == "https://www.data.jma.go.jp/gmd/goos/data/pub/JMA-product/"

GOOS_SST_URL(year) == "mgd_sst_glb_D/" \o year \o "/"

GOOS_RE_SST_NAME_TEMPLATE(date) == "re_mgd_sst_glb_D" \o date \o ".txt.gz"

GOOS_SST_NAME_TEMPLATE(date) == "mgd_sst_glb_D" \o date \o ".txt.gz"

HIGH_GOOS_SST_URL(year) == "him_sst_pac_D/" \o year \o "/"

HIGH_GOOS_NAME_TEMPLATE(date) == "him_sst_pac_D" \o date \o ".txt"

(***************************************************************************)
(* _generate_data_info                                                     *)
(***************************************************************************)
\* faulty variant: the naming boundary moved by one year
LowFilename_After2022(date) ==
  IF int(Slice(date, 0, 4)) > 2022 THEN GOOS_SST_NAME_TEMPLATE(date)
  ELSE GOOS_RE_SST_NAME_TEMPLATE(date)

\* the filename of the 0.25 degree product; date is YYYYMMDD
LowFilename(date) ==
  IF int(Slice(date, 0, 4)) >= 2022 THEN GOOS_SST_NAME_TEMPLATE(date)
  ELSE GOOS_RE_SST_NAME_TEMPLATE(date)

\* faulty variant: the directory and the filename joined with a separator
DataPath_Joined(save_path, filename) == save_path \o "/" \o filename

\* data_path = save_path + filename
DataPath(save_path, filename) == save_path \o filename

\* lines 45-64: filename, url and save path for the date written as YYYYMMDD
data_info(date, save_path, resolution) ==
  IF resolution = "low"
  THEN [kind |-> "return", logs |-> <<>>,
        filename  |-> LowFilename(date),
        url       |-> ROOT_URL \o GOOS_SST_URL(Slice(date, 0, 4)) \o LowFilename(date),
        data_path |-> DataPath(save_path, LowFilename(date))]
  ELSE IF resolution = "high"
  THEN [kind |-> "return", logs |-> <<>>,
        filename  |-> HIGH_GOOS_NAME_TEMPLATE(date),
        url       |-> ROOT_URL \o HIGH_GOOS_SST_URL(Slice(date, 0, 4))
                        \o HIGH_GOOS_NAME_TEMPLATE(date),
        data_path |-> DataPath(save_path, HIGH_GOOS_NAME_TEMPLATE(date))]
  ELSE [kind |-> "raise", exc |-> "ValueError", logs |-> <<"error">>]

\* the outcome of _generate_data_info(date, save_path, resolution)
generate_data_info(date, save_path, resolution) ==
  IF ~strptime_ok(date)
  THEN [kind |-> "raise", exc |-> "ValueError", logs |-> <<>>]
  ELSE data_info(strftime(strptime(date)), save_path, resolution)

(***************************************************************************)
(* Inputs of the resolver                                                  *)
(***************************************************************************)
\* timestamps on both sides of the 2022 naming change, padded and unpadded,
\* and strings that strptime rejects; the years are four-digit years from
\* 1000 on, which %Y renders with four digits on every platform
Dates == {"1999-12-31 23:59", "2021-05-19 12:00", "2021-12-31 23:59",
          "2022-01-01 00:00", "2022-05-19 12:00", "2022-5-9 1:05",
          "2023-02-28 06:30", "2024-07-29 00:00", "2024-02-29 00:00",
          "2023-02-29 00:00", "2022/05/19 12:00", "2022-05-19"}

SavePaths == {"data", "data/", "data//", "out/sst"}

Resolutions == {"low", "high", "mid"}

\* a call of _generate_data_info that has not run yet
InitResolve ==
  /\ info \in [kind : {"pending"}, date : Dates, save_path : SavePaths,
               resolution : Resolutions]
  /\ fs = {}
  /\ dirs = {}
  /\ call = NoCall
  /\ parse = NoCall

GenerateDataInfo ==
  /\ info.kind = "pending"
  /\ info' = [kind |-> "call", date |-> info.date, save_path |-> info.save_path,
              resolution |-> info.resolution,
              out |-> generate_data_info(info.date, info.save_path, info.resolution)]
  /\ UNCHANGED <<fs, dirs, call, parse>>

NextResolve == GenerateDataInfo

SpecResolve == InitResolve /\ [][NextResolve]_vars

(***************************************************************************)
(* goos_sst_parser                                                         *)
(***************************************************************************)
\* Model sizes of the two grids.  The code's grids are 720 x 1440 ('low') and
\* 600 x 800 ('high'); the model keeps the two profiles distinct and scales
\* them down so that whole files can be enumerated.
LowLatCount == 2
LowLonCount == 2
HighLatCount == 1
HighLonCount == 3

\* the largest number of data lines of an input file
MaxLines == 2

\* the number of characters up to and including the first "\n" of text, or
\* Len(text) when it holds none
LineEnd(text) ==
  IF \E i \in 1..Len(text) : SubSeq(text, i, i) = "\n"
  THEN CHOOSE i \in 1..Len(text) :
         /\ SubSeq(text, i, i) = "\n"
         /\ \A j \in 1..(i - 1) : SubSeq(text, j, j) # "\n"
  ELSE Len(text)

\* f.readlines(): the lines of the text, each with its terminator
RECURSIVE readlines(_)
readlines(text) ==
  IF text = "" THEN <<>>
  ELSE <<Slice(text, 0, LineEnd(text))>> \o readlines(Slice(text, LineEnd(text), Len(text)))

\* inputs[1:]
DropFirst(seq) == IF Len(seq) = 0 THEN <<>> ELSE Tail(seq)

\* line[:-1], the step the code comments as "remove the \n at the end of line"
StripLine(line) == DropLast(line, 1)

\* faulty variant: only whole 3-character fields are sliced
FieldSlices_WholeOnly(line) ==
  [i \in 1..(Len(line) \div 3) |-> Slice(line, 3 * (i - 1), 3 * i)]

\* [line[i:i + 3] for i in range(0, len(line), 3)]
FieldSlices(line) ==
  [i \in 1..((Len(line) + 2) \div 3) |-> Slice(line, 3 * (i - 1), 3 * i)]

\* int(x) raises ValueError unless x is a string of digits
IntOk(field) == Len(field) > 0 /\ AllDigits(field)

\* one pass of the loop body: the fields of a line, as text
LineFields(line) == FieldSlices(StripLine(line))

\* a float is kept as the exact quotient num / den; NaN has den = 0
NaN == [num |-> 0, den |-> 0]

\* astype(float) / 10
Scale(raw) == [num |-> raw, den |-> 10]

\* faulty variant: the threshold itself is masked too
IsInvalid_AtLeast80(v) == v.num >= 80 * v.den

\* data > 80
IsInvalid(v) == v.num > 80 * v.den

\* data[data > 80] = np.nan
Mask(v) == IF IsInvalid(v) THEN NaN ELSE v

\* data[::-1, :]
Flip(rows) == [k \in 1..Len(rows) |-> rows[Len(rows) + 1 - k]]

\* the number of points of the latitude axis, np.linspace(..., n)
LatCount(resolution) == IF resolution = "low" THEN LowLatCount ELSE HighLatCount

\* the number of points of the longitude axis, np.linspace(..., n)
LonCount(resolution) == IF resolution = "low" THEN LowLonCount ELSE HighLonCount

\* faulty variant: the array is wrapped without its coordinates being checked
CoordsFit_Unchecked(rows, cols, resolution) == TRUE

\* DataArray(data=..., dims=[...], coords={...}) raises ValueError when a
\* coordinate's length conflicts with the size of its dimension
CoordsFit(rows, cols, resolution) ==
  rows = LatCount(resolution) /\ cols = LonCount(resolution)

Raise(exc, logs, data) == [kind |-> "raise", exc |-> exc, logs |-> logs, data |-> data]

\* the outcome of goos_sst_parser on a file holding text; data is the list
\* the decoding loop builds, kept in the outcome for every call that gets there
goos_sst_parser(present, text, resolution) ==
  IF ~present THEN Raise("AssertionError", <<>>, <<>>)
  ELSE
  LET inputs == DropFirst(readlines(text))
      fields == [i \in 1..Len(inputs) |-> LineFields(inputs[i])]
  IN
  IF \E i \in 1..Len(fields) : \E j \in 1..Len(fields[i]) : ~IntOk(fields[i][j])
  THEN Raise("ValueError", <<>>, <<>>)
  ELSE
  LET data == [i \in 1..Len(fields) |-> [j \in 1..Len(fields[i]) |-> int(fields[i][j])]]
  IN
  \* np.asarray(data).astype(float): rows of unequal length make no float array
  IF \E i \in 1..Len(data) : Len(data[i]) # Len(data[1])
  THEN Raise("ValueError", <<>>, data)
  \* no rows: the array is one-dimensional and data[::-1, :] has one index too many
  ELSE IF Len(data) = 0
  THEN Raise("IndexError", <<>>, data)
  ELSE
  LET grid == Flip([i \in 1..Len(data) |-> [j \in 1..Len(data[i]) |-> Mask(Scale(data[i][j]))]])
  IN
  IF resolution \notin {"low", "high"}
  THEN Raise("ValueError", <<"error">>, data)
  ELSE IF ~CoordsFit(Len(grid), Len(grid[1]), resolution)
  THEN Raise("ValueError", <<>>, data)
  ELSE [kind |-> "return", logs |-> <<>>, data |-> data, grid |-> grid,
        latitude |-> LatCount(resolution), longitude |-> LonCount(resolution),
        units |-> "degree"]

(***************************************************************************)
(* Inputs of the parser                                                    *)
(***************************************************************************)
Header == "20240729"

\* data lines without their terminator: whole fields on both sides of the
\* mask threshold, lines ending in a partial field, and an empty line
LineBodies == {"", "999", "9998", "800801", "999888", "015800", "80180",
               "8008017", "015999888", "99988801542"}

RECURSIVE SeqsUpTo(_, _)
SeqsUpTo(S, n) ==
  IF n = 0 THEN {<<>>}
  ELSE LET shorter == SeqsUpTo(S, n - 1)
       IN  shorter \cup {Append(q, x) : q \in {r \in shorter : Len(r) = n - 1}, x \in S}

RECURSIVE Join(_)
Join(lines) == IF Len(lines) = 0 THEN "" ELSE Head(lines) \o "\n" \o Join(Tail(lines))

\* the texts of the input files: a header line and up to MaxLines data lines,
\* the last line with or without its terminator; and the empty file
Texts ==
  {""} \cup
  UNION { {Join(<<Header>> \o q), DropLast(Join(<<Header>> \o q), 1)} :
          q \in SeqsUpTo(LineBodies, MaxLines) }

\* a call of goos_sst_parser that has not run yet, on a file that exists and
\* holds one of the texts, or on a path where no file exists
InitParse ==
  /\ info = NoCall
  /\ fs = {}
  /\ dirs = {}
  /\ call = NoCall
  /\ parse \in [kind : {"pending"}, present : {TRUE}, text : Texts,
                resolution : Resolutions]
           \cup [kind : {"pending"}, present : {FALSE}, text : {""},
                 resolution : Resolutions]

Parser ==
  /\ parse.kind = "pending"
  /\ parse' = [kind |-> "call", present |-> parse.present, text |-> parse.text,
               resolution |-> parse.resolution,
               out |-> goos_sst_parser(parse.present, parse.text, parse.resolution)]
  /\ UNCHANGED <<info, fs, dirs, call>>

NextParse == Parser

SpecParse == InitParse /\ [][NextParse]_vars

(***************************************************************************)
(* Collaborators from seafog.utils                                         *)
(***************************************************************************)
\* download_url(url, save_path, filename, ...): the files after a transfer
\* that ended with status code; a 200 leaves the file in the target directory
download_url(files, save_path, filename, code) ==
  IF code = 200 THEN files \cup {save_path \o filename} ELSE files

\* decompress_file(path): the files after path is decompressed in place,
\* which makes a sibling file without the compression suffix
decompress_file(files, path) == files \cup {DropLast(path, 3)}

(***************************************************************************)
(* goos_sst_find_data                                                      *)
(***************************************************************************)
\* if save_path[-1] != '/': save_path += '/'
WithSeparator(save_path) ==
  IF LastChar(save_path) # "/" THEN save_path \o "/" ELSE save_path

\* the path whose existence is the cache check, and the path returned on a hit
CachePath(data_path) == DropLast(data_path, 3)

\* faulty variant: a 404 is handled like every other failed transfer
StatusBranch_NoNotFound(code) == IF code # 200 THEN "failed" ELSE "ok"

\* faulty variant: only server errors count as failed transfers
StatusBranch_ServerErrors(code) ==
  IF code = 404 THEN "not_found" ELSE IF code >= 500 THEN "failed" ELSE "ok"

\* the branch the status code of the downloader selects
StatusBranch(code) ==
  IF code = 404 THEN "not_found" ELSE IF code # 200 THEN "failed" ELSE "ok"

\* faulty variant: every downloaded file is decompressed
NeedsDecompress_Always(resolution) == TRUE

\* if resolution == "low": the 0.25 degree product is the compressed one
NeedsDecompress(resolution) == resolution = "low"

Log(level) == [ev |-> "log", level |-> level]

LogEvents(levels) == [i \in 1..Len(levels) |-> Log(levels[i])]

Download(url, save_path, filename, code) ==
  [ev |-> "download", url |-> url, save_path |-> save_path, filename |-> filename,
   code |-> code]

Decompress(path) == [ev |-> "decompress", path |-> path]

Return(value) == [kind |-> "return", value |-> value]

\* lines 167-180: the call from the status code of the downloader on; got is
\* the downloader call made, files the files it left
after_download(files, folders, resolved, resolution, code, got) ==
  IF StatusBranch(code) = "not_found"
  THEN [events |-> <<got, Log("warning")>>, out |-> Return(""),
        resolved |-> resolved, files |-> files, folders |-> folders]
  ELSE IF StatusBranch(code) = "failed"
  THEN [events |-> <<got, Log("error")>>,
        out |-> [kind |-> "raise", exc |-> "ConnectionError"],
        resolved |-> resolved, files |-> files, folders |-> folders]
  ELSE IF NeedsDecompress(resolution)
  THEN [events |-> <<got, Decompress(resolved.data_path)>>,
        out |-> Return(DropLast(resolved.data_path, 3)),
        resolved |-> resolved,
        files |-> decompress_file(files, resolved.data_path), folders |-> folders]
  ELSE [events |-> <<got>>, out |-> Return(resolved.data_path),
        resolved |-> resolved, files |-> files, folders |-> folders]

\* lines 159-180: the call from the cache check on; base is save_path with
\* its separator, resolved the outcome of _generate_data_info
after_resolve(files, folders, base, resolved, resolution, code) ==
  IF resolved.kind = "raise"
  THEN [events |-> LogEvents(resolved.logs),
        out |-> [kind |-> "raise", exc |-> resolved.exc],
        resolved |-> resolved, files |-> files, folders |-> folders]
  ELSE IF CachePath(resolved.data_path) \in files
  THEN [events |-> <<>>, out |-> Return(CachePath(resolved.data_path)),
        resolved |-> resolved, files |-> files, folders |-> folders]
  ELSE after_download(download_url(files, base, resolved.filename, code), folders,
                      resolved, resolution, code,
                      Download(resolved.url, base, resolved.filename, code))

\* lines 153-157: the call from the directory check on
after_separator(files, folders, date, base, resolution, code) ==
  after_resolve(files, IF base \notin folders THEN folders \cup {base} ELSE folders,
                base, generate_data_info(date, base, resolution), resolution, code)

\* One call of goos_sst_find_data(date, save_path, resolution) on the files
\* and directories given, the downloader answering with status code when it
\* is called: the events of the call in order, its outcome, and the files and
\* directories it leaves.  save_path[-1] of an empty save_path raises.
goos_sst_find_data(files, folders, date, save_path, resolution, code) ==
  IF save_path = ""
  THEN [events |-> <<>>, out |-> [kind |-> "raise", exc |-> "IndexError"],
        resolved |-> NoCall, files |-> files, folders |-> folders]
  ELSE after_separator(files, folders, date, WithSeparator(save_path), resolution, code)

(***************************************************************************)
(* Inputs of the fetch orchestrator                                        *)
(***************************************************************************)
FetchDates == {"2021-05-19 12:00", "2024-07-29 00:00", "2022-05-19"}

FetchPaths == {"", "data", "data/"}

\* status codes the downloader may hand back
StatusCodes == {200, 404, 403, 500}

\* what earlier runs may have left under data/: nothing, or the final
\* artifact of one of the two products
StartFiles == {{}, {"data/mgd_sst_glb_D20240729.txt"}, {"data/him_sst_pac_D20240729.txt"}}

InitFetch ==
  /\ info = NoCall
  /\ fs \in StartFiles
  /\ dirs = IF fs = {} THEN {} ELSE {"data/"}
  /\ call = NoCall
  /\ parse = NoCall

\* a call of goos_sst_find_data, from its first line to its return or raise;
\* before keeps the files the call found
FindData(date, save_path, resolution, code) ==
  \E r \in {goos_sst_find_data(fs, dirs, date, save_path, resolution, code)} :
    /\ call' = [kind |-> "call", date |-> date, save_path |-> save_path,
                resolution |-> resolution, before |-> fs,
                resolved |-> r.resolved, events |-> r.events, out |-> r.out]
    /\ fs' = r.files
    /\ dirs' = r.folders
    /\ UNCHANGED <<info, parse>>

NextFetch ==
  \E date \in FetchDates, save_path \in FetchPaths, resolution \in Resolutions,
     code \in StatusCodes :
    FindData(date, save_path, resolution, code)

SpecFetch == InitFetch /\ [][NextFetch]_vars

(***************************************************************************)
(* Properties of _generate_data_info (checked under SpecResolve)           *)
(***************************************************************************)
Resolved == info.kind = "call" /\ info.out.kind = "return"

\* the year the timestamp is written with, and its date as YYYYMMDD
YearOf(date) == int(Slice(date, 0, 4))
YMD(date) == strftime(strptime(date))

\* C4: for 'low' the filename is mgd_sst_glb_D<YYYYMMDD>.txt.gz when the year
\* is >= 2022 and re_mgd_sst_glb_D<YYYYMMDD>.txt.gz when it is < 2022; for
\* 'high' it is him_sst_pac_D<YYYYMMDD>.txt whatever the year; the URL is the
\* root URL, then the product directory of that year, then that filename.
C4_NamingScheme ==
  Resolved =>
    LET ymd  == YMD(info.date)
        year == Slice(ymd, 0, 4)
        out  == info.out
    IN  /\ (info.resolution = "low" /\ YearOf(info.date) >= 2022)
             => out.filename = "mgd_sst_glb_D" \o ymd \o ".txt.gz"
        /\ (info.resolution = "low" /\ YearOf(info.date) < 2022)
             => out.filename = "re_mgd_sst_glb_D" \o ymd \o ".txt.gz"
        /\ info.resolution = "high"
             => out.filename = "him_sst_pac_D" \o ymd \o ".txt"
        /\ info.resolution = "low"
             => out.url = ROOT_URL \o "mgd_sst_glb_D/" \o year \o "/" \o out.filename
        /\ info.resolution = "high"
             => out.url = ROOT_URL \o "him_sst_pac_D/" \o year \o "/" \o out.filename

\* the two sides of the boundary: 2022-01-01 is resolved to the current name
C4_Witness ==
  /\ Resolved
  /\ info.resolution = "low"
  /\ info.date = "2022-01-01 00:00"
  /\ info.out.filename = "mgd_sst_glb_D20220101.txt.gz"

\* base with every trailing separator removed
RECURSIVE TrimSeparators(_)
TrimSeparators(base) ==
  IF Len(base) > 0 /\ LastChar(base) = "/" THEN TrimSeparators(DropLast(base, 1))
  ELSE base

\* C9 as stated: the localPath _generate_data_info returns is the base
\* directory normalized to end with exactly one separator, then the filename.
C9_NormalizedLocalPath ==
  Resolved =>
    info.out.data_path = TrimSeparators(info.save_path) \o "/" \o info.out.filename

\* C9, amended: the localPath _generate_data_info returns is save_path exactly
\* as given followed by the filename; nothing is normalized.
C9_VerbatimLocalPath ==
  Resolved => info.out.data_path = info.save_path \o info.out.filename

\* a base directory without a trailing separator has been resolved
C9_Witness ==
  /\ Resolved
  /\ info.save_path = "data"
  /\ info.date = "2024-07-29 00:00"
  /\ info.resolution = "high"
  /\ info.out.data_path = "datahim_sst_pac_D20240729.txt"

(***************************************************************************)
(* Properties of goos_sst_parser (checked under SpecParse)                 *)
(***************************************************************************)
\* the data lines of the parsed file, as readlines gives them
DataLines == DropFirst(readlines(parse.text))

\* the decoding loop has run over every data line
Decoded ==
  /\ parse.kind = "call"
  /\ parse.present
  /\ Len(parse.out.data) = Len(DataLines)

Parsed == parse.kind = "call" /\ parse.out.kind = "return"

\* a line without its line terminator, if it has one
WithoutTerminator(line) ==
  IF Len(line) > 0 /\ LastChar(line) = "\n" THEN DropLast(line, 1) ELSE line

\* C5 as stated: a data line, its terminator stripped, is decoded into
\* floor(length / 3) integers; a trailing partial field is dropped.
C5_FloorFieldCount ==
  Decoded =>
    \A i \in 1..Len(DataLines) :
      Len(parse.out.data[i]) = Len(WithoutTerminator(DataLines[i])) \div 3

\* C5, amended: a data line, its last character removed, is decoded into
\* ceil(length / 3) integers, one per 3-character field and one more for a
\* trailing partial field of 1 or 2 characters, parsed as an integer itself.
C5_CeilFieldCount ==
  Decoded =>
    \A i \in 1..Len(DataLines) :
      LET body == DropLast(DataLines[i], 1)
          row  == parse.out.data[i]
          rest == Len(body) % 3
      IN  /\ Len(row) = (Len(body) \div 3) + (IF rest = 0 THEN 0 ELSE 1)
          /\ \A j \in 1..(Len(body) \div 3) :
               row[j] = int(SubSeq(body, 3 * j - 2, 3 * j))
          /\ rest # 0 => row[Len(row)] = int(SubSeq(body, Len(body) - rest + 1, Len(body)))

\* a line of one whole field and one character more has been decoded
C5_Witness ==
  /\ Decoded
  /\ parse.text = Header \o "\n9998\n"
  /\ parse.out.data = <<<<999, 8>>>>

\* the raw integer the code decoded for row k, column j of the returned array
RawAt(k, j) == parse.out.data[Len(parse.out.data) + 1 - k][j]

\* C6: a raw field above 800 (999 and 888 among them) is parsed to NaN; a raw
\* field of at most 800 is parsed to raw / 10 and is not masked.
C6_SentinelLaw ==
  Parsed =>
    \A k \in 1..Len(parse.out.grid) : \A j \in 1..Len(parse.out.grid[k]) :
      /\ RawAt(k, j) > 800 => parse.out.grid[k][j] = NaN
      /\ RawAt(k, j) <= 800 =>
           /\ parse.out.grid[k][j] = [num |-> RawAt(k, j), den |-> 10]
           /\ parse.out.grid[k][j] # NaN

\* a grid holding 999, 888, 801 and 800 has been parsed
C6_Witness ==
  /\ Parsed
  /\ parse.text = Header \o "\n999888\n800801\n"
  /\ parse.out.grid = <<<<[num |-> 800, den |-> 10], NaN>>, <<NaN, NaN>>>>

\* the values of a data line: its 3-character fields, terminator excluded,
\* scaled and masked
RowOf(line) ==
  LET body == WithoutTerminator(line)
  IN  [j \in 1..((Len(body) + 2) \div 3) |->
         LET raw == int(Slice(body, 3 * (j - 1), 3 * j))
         IN  IF raw > 800 THEN NaN ELSE [num |-> raw, den |-> 10]]

\* C7 as stated: the header gives no row, and row k of the array holds the
\* values of data line n-1-k, so row 0 is the last line of the file with all
\* of its fields, whether or not that line ends with a line terminator.
C7_RowFlip ==
  Parsed =>
    /\ Len(parse.out.grid) = Len(DataLines)
    /\ \A k \in 1..Len(parse.out.grid) :
         parse.out.grid[k] = RowOf(DataLines[Len(DataLines) + 1 - k])

\* C8: a returned Grid has the shape of the requested resolution, and a
\* decoded array of any other shape makes the parser fail, not return.
C8_GridShape ==
  (parse.kind = "call" /\ parse.resolution \in {"low", "high"}) =>
    LET shape == IF parse.resolution = "low" THEN <<LowLatCount, LowLonCount>>
                 ELSE <<HighLatCount, HighLonCount>>
    IN  /\ parse.out.kind = "return" =>
             /\ Len(parse.out.grid) = shape[1]
             /\ \A k \in 1..Len(parse.out.grid) : Len(parse.out.grid[k]) = shape[2]
        /\ (Decoded /\ (\/ Len(parse.out.data) # shape[1]
                        \/ \E i \in 1..Len(parse.out.data) :
                             Len(parse.out.data[i]) # shape[2]))
             => parse.out.kind = "raise" /\ parse.out.exc \in {"ValueError", "IndexError"}

\* a file of one line too few for its resolution has been rejected
C8_Witness ==
  /\ Decoded
  /\ parse.resolution = "low"
  /\ parse.text = Header \o "\n999888\n"
  /\ parse.out.kind = "raise"

(***************************************************************************)
(* Properties of goos_sst_find_data (checked under SpecFetch)              *)
(***************************************************************************)
Called == call.kind = "call"

Downloads == {i \in 1..Len(call.events) : call.events[i].ev = "download"}

Decompressions == {i \in 1..Len(call.events) : call.events[i].ev = "decompress"}

Logged(level) ==
  {i \in 1..Len(call.events) :
     call.events[i].ev = "log" /\ call.events[i].level = level}

\* the downloader was called and answered with a status in codes
Answered(codes) == \E i \in Downloads : call.events[i].code \in codes

\* localPath with its compression suffix stripped: the .txt file
FinalArtifact(data_path) ==
  IF Slice(data_path, Len(data_path) - 3, Len(data_path)) = ".gz"
  THEN DropLast(data_path, 3) ELSE data_path

\* C1 as stated: when the final artifact of the request exists before the
\* call, the call makes no downloader call and returns the artifact's path,
\* for 'low' and for 'high'.
C1_IdempotentCache ==
  (/\ Called
   /\ call.resolved.kind = "return"
   /\ FinalArtifact(call.resolved.data_path) \in call.before)
    => /\ Downloads = {}
       /\ call.out = Return(FinalArtifact(call.resolved.data_path))

\* C2: a 404 from the downloader makes the call return "", with one warning
\* logged, no error logged, no exception and no decompression.
C2_NotFound ==
  (Called /\ Answered({404})) =>
    /\ call.out = Return("")
    /\ Cardinality(Logged("warning")) = 1
    /\ Logged("error") = {}
    /\ Decompressions = {}

\* a 404 has been answered to a request for the uncompressed product
C2_Witness ==
  /\ Called
  /\ Answered({404})
  /\ call.resolution = "high"
  /\ call.out = Return("")

\* C3: any status but 200 and 404 makes the call log an error and raise
\* ConnectionError, with no decompression and no second downloader call.
C3_TransferFailed ==
  (Called /\ Answered(StatusCodes \ {200, 404})) =>
    /\ call.out = [kind |-> "raise", exc |-> "ConnectionError"]
    /\ Logged("error") # {}
    /\ Decompressions = {}
    /\ Cardinality(Downloads) = 1

\* a 403 has been answered and the call has raised
C3_Witness ==
  /\ Called
  /\ Answered({403})
  /\ call.out = [kind |-> "raise", exc |-> "ConnectionError"]

\* C10: after a 200, 'low' decompresses localPath once, after the download,
\* and returns localPath without ".gz"; 'high' decompresses nothing and
\* returns localPath, which ends in ".txt".  No call decompresses before it
\* downloads, or without downloading.
C10_Decompression ==
  Called =>
    /\ (Answered({200}) /\ call.resolution = "low") =>
         /\ Cardinality(Decompressions) = 1
         /\ \A i \in Decompressions :
              /\ call.events[i].path = call.resolved.data_path
              /\ \E d \in Downloads : d < i
         /\ call.out.kind = "return"
         /\ call.out.value \o ".gz" = call.resolved.data_path
         /\ Slice(call.out.value, Len(call.out.value) - 4, Len(call.out.value)) = ".txt"
    /\ (Answered({200}) /\ call.resolution = "high") =>
         /\ Decompressions = {}
         /\ call.out = Return(call.resolved.data_path)
         /\ Slice(call.out.value, Len(call.out.value) - 4, Len(call.out.value)) = ".txt"
    /\ \A i \in Decompressions : \E d \in Downloads : d < i

\* a compressed file has been downloaded and decompressed
C10_Witness ==
  /\ Called
  /\ Answered({200})
  /\ call.resolution = "low"
  /\ call.date = "2024-07-29 00:00"
  /\ Cardinality(Decompressions) = 1
  /\ call.out = Return("data/mgd_sst_glb_D20240729.txt")

====
